---------------------------- MODULE Spec2Model ----------------------------
(***************************************************************************)
(* Model of batch_clean_structured.py: the RAGSanitizer page pipeline      *)
(* (is_junk_page, clean_text_rag_optimized, process_table_block, sanitize) *)
(* and the run_batch loop around it.                                       *)
(*                                                                         *)
(* Text is modelled character by character.  A text is a sequence of pairs *)
(* <<c, o>>: c is the character and o is a ghost origin, the index of the  *)
(* source line of the page the character was read from (0 for separators   *)
(* and for characters the program inserts).  The program never reads o.    *)
(***************************************************************************)
EXTENDS Integers, Sequences, FiniteSets, TLC

(***************************************************************************)
(* Characters.  NL is "\n"; COPY and NBSP stand for U+00A9 and U+00A0.      *)
(***************************************************************************)
NL == "\n"
COPY == "(c)"
NBSP == "nbsp"
BACKSLASH == "\\"

UpperCase == <<"A", "B", "C", "D", "E", "F", "G", "H", "I", "J", "K", "L", "M",
               "N", "O", "P", "Q", "R", "S", "T", "U", "V", "W", "X", "Y", "Z">>
LowerCase == <<"a", "b", "c", "d", "e", "f", "g", "h", "i", "j", "k", "l", "m",
               "n", "o", "p", "q", "r", "s", "t", "u", "v", "w", "x", "y", "z">>

\* [A-Z]
IsUpper(c) == \E i \in 1..Len(UpperCase) : UpperCase[i] = c
\* \d
IsDigit(c) == c \in {"0", "1", "2", "3", "4", "5", "6", "7", "8", "9"}
\* \s, and the characters str.strip() removes
IsSpace(c) == c \in {" ", NL, NBSP}
\* str.lower() on one character
LowerChar(c) ==
    IF IsUpper(c) THEN LowerCase[CHOOSE i \in 1..Len(UpperCase) : UpperCase[i] = c]
    ELSE c

(***************************************************************************)
(* String literals of the source.                                          *)
(***************************************************************************)
S_TABLE_ROW == <<"<", "T", "A", "B", "L", "E", "_", "R", "O", "W", ">">>
S_FORCE_BREAK == <<"<", "F", "O", "R", "C", "E", "_", "B", "R", "E", "A", "K", ">">>
S_TABLE_BLOCK == <<"<", "T", "A", "B", "L", "E", "_", "B", "L", "O", "C", "K", ">">>
S_dots == <<".", ".", ".", ".", ".">>
S_contents == <<"c", "o", "n", "t", "e", "n", "t", "s">>
S_chapter == <<"c", "h", "a", "p", "t", "e", "r">>
S_list_of_tables == <<"l", "i", "s", "t", " ", "o", "f", " ", "t", "a", "b", "l", "e", "s">>
S_list_of_figures == <<"l", "i", "s", "t", " ", "o", "f", " ", "f", "i", "g", "u", "r", "e", "s">>
S_AKW == <<"A", "K", "W">>
S_PAGE == <<"P", "A", "G", "E">>
S_dashes == <<"-", "-", "-">>
S_marker == <<"W", "e", " ", "w", "a", "n", "t", " ", "t", "o", " ", "h", "e", "a", "r", " ", "f", "r", "o", "m", " ", "y", "o", "u">>
S_FAO == <<"F", "A", "O">>
S_Yangon == <<"Y", "a", "n", "g", "o", "n">>
S_Page == <<"P", "a", "g", "e">>
S_of == <<"o", "f">>
S_Tuesday == <<"T", "u", "e", "s", "d", "a", "y", ",", " ", "D", "e", "c", "e", "m", "b", "e", "r">>
S_CD == <<"C", "D", "1", "0", "9", "8", "E", "N">>
S_source == <<"s", "o", "u", "r", "c", "e">>
S_figure == <<"f", "i", "g", "u", "r", "e">>
S_http == <<"h", "t", "t", "p">>
junk_triggers ==
    << <<"c", "r", "e", "a", "t", "i", "v", "e", " ", "c", "o", "m", "m", "o", "n", "s">>,
       <<"i", "s", "b", "n", " ", "9", "7", "8">>,
       <<"s", "u", "g", "g", "e", "s", "t", "e", "d", " ", "c", "i", "t", "a", "t", "i", "o", "n">>,
       <<"m", "a", "i", "l", "i", "n", "g", " ", "a", "d", "d", "r", "e", "s", "s", ":">>,
       <<"a", "l", "l", " ", "r", "i", "g", "h", "t", "s", " ", "r", "e", "s", "e", "r", "v", "e", "d">> >>

(***************************************************************************)
(* str and re primitives over texts.                                       *)
(***************************************************************************)
Ch(t, i) == t[i][1]
\* the characters of a text, origins dropped
Plain(t) == [i \in 1..Len(t) |-> t[i][1]]
\* a literal as a text: inserted characters have origin 0
Lit(p) == [i \in 1..Len(p) |-> <<p[i], 0>>]
\* the characters of source line o as a text
Tagged(line, o) == [i \in 1..Len(line) |-> <<line[i], o>>]
\* str.lower()
Lower(t) == [i \in 1..Len(t) |-> <<LowerChar(t[i][1]), t[i][2]>>]
\* the literal p occurs in t at position i
MatchAt(t, i, p) ==
    /\ i >= 1
    /\ i + Len(p) - 1 <= Len(t)
    /\ \A k \in 1..Len(p) : t[i + k - 1][1] = p[k]
\* p in t
Contains(t, p) == \E i \in 1..(Len(t) - Len(p) + 1) : MatchAt(t, i, p)
\* t[:n]
Prefix(t, n) == SubSeq(t, 1, IF Len(t) < n THEN Len(t) ELSE n)

\* the first position >= i at which p occurs in t, or 0
NextAt(t, i, p) ==
    LET M == {m \in i..(Len(t) - Len(p) + 1) : MatchAt(t, m, p)}
    IN  IF M = {} THEN 0 ELSE CHOOSE m \in M : \A r \in M : m <= r

RECURSIVE CountFrom(_, _, _)
CountFrom(t, i, p) ==
    LET m == NextAt(t, i, p)
    IN  IF m = 0 THEN 0 ELSE 1 + CountFrom(t, m + Len(p), p)
\* t.count(p): non-overlapping occurrences, left to right
Count(t, p) == CountFrom(t, 1, p)

RECURSIVE ReplaceFrom(_, _, _, _)
ReplaceFrom(t, i, p, r) ==
    LET m == NextAt(t, i, p)
    IN  IF m = 0 THEN SubSeq(t, i, Len(t))
        ELSE SubSeq(t, i, m - 1) \o Lit(r) \o ReplaceFrom(t, m + Len(p), p, r)
\* t.replace(p, r), p not empty: non-overlapping occurrences, left to right
Replace(t, p, r) == ReplaceFrom(t, 1, p, r)

RECURSIVE SplitFrom(_, _, _)
SplitFrom(t, i, c) ==
    LET m == NextAt(t, i, <<c>>)
    IN  IF m = 0 THEN <<SubSeq(t, i, Len(t))>>
        ELSE <<SubSeq(t, i, m - 1)>> \o SplitFrom(t, m + 1, c)
\* t.split(c) for a one-character separator
Split(t, c) == SplitFrom(t, 1, c)

\* index of the first / last character that is not whitespace (0 if none)
FirstInk(t) ==
    IF \A i \in 1..Len(t) : IsSpace(t[i][1]) THEN 0
    ELSE CHOOSE i \in 1..Len(t) :
            /\ ~IsSpace(t[i][1])
            /\ \A j \in 1..(i - 1) : IsSpace(t[j][1])
LastInk(t) ==
    IF \A i \in 1..Len(t) : IsSpace(t[i][1]) THEN 0
    ELSE CHOOSE i \in 1..Len(t) :
            /\ ~IsSpace(t[i][1])
            /\ \A j \in (i + 1)..Len(t) : IsSpace(t[j][1])
\* t.strip()
Strip(t) == IF FirstInk(t) = 0 THEN << >> ELSE SubSeq(t, FirstInk(t), LastInk(t))

\* end of the longest run of whitespace / digits that starts at i
\* (i - 1 when t[i] is not in the class): the greedy \s* and \d*
RECURSIVE SpaceRunEnd(_, _)
SpaceRunEnd(t, i) ==
    IF i <= Len(t) /\ IsSpace(t[i][1]) THEN SpaceRunEnd(t, i + 1) ELSE i - 1
RECURSIVE DigitRunEnd(_, _)
DigitRunEnd(t, i) ==
    IF i <= Len(t) /\ IsDigit(t[i][1]) THEN DigitRunEnd(t, i + 1) ELSE i - 1

(***************************************************************************)
(* Thresholds of the source.                                               *)
(***************************************************************************)
DotLeaderLimit == 3
ContentsWindow == 200
TriggerLimit == 2
MinLineLen == 3
HeaderCap == 80

\* is_junk_page with "and" for "or" between the two list titles
M_is_junk_page(text) ==
    LET text_lower == Lower(text) IN
    \/ Count(text, S_dots) > DotLeaderLimit
    \/ /\ Contains(Prefix(text_lower, ContentsWindow), S_contents)
       /\ Contains(text_lower, S_chapter)
    \/ /\ Contains(text_lower, S_list_of_tables)
       /\ Contains(text_lower, S_list_of_figures)
    \/ Cardinality({i \in 1..Len(junk_triggers) :
                       Contains(text_lower, junk_triggers[i])}) >= TriggerLimit

(***************************************************************************)
(* RAGSanitizer.is_junk_page                                               *)
(***************************************************************************)
is_junk_page(text) ==
    LET text_lower == Lower(text) IN
    \/ Count(text, S_dots) > DotLeaderLimit
    \/ /\ Contains(Prefix(text_lower, ContentsWindow), S_contents)
       /\ Contains(text_lower, S_chapter)
    \/ Contains(text_lower, S_list_of_tables)
    \/ Contains(text_lower, S_list_of_figures)
    \/ Cardinality({i \in 1..Len(junk_triggers) :
                       Contains(text_lower, junk_triggers[i])}) >= TriggerLimit

(***************************************************************************)
(* RAGSanitizer.clean_text_rag_optimized                                   *)
(***************************************************************************)
\* ---\s*PAGE\s*\d+\s*--- matched at i: the index of its last character, or 0
PageMarkerEnd(t, i) ==
    IF ~MatchAt(t, i, S_dashes) THEN 0
    ELSE LET a == SpaceRunEnd(t, i + Len(S_dashes)) + 1 IN
         IF ~MatchAt(t, a, S_PAGE) THEN 0
         ELSE LET b == SpaceRunEnd(t, a + Len(S_PAGE)) + 1
                  d == DigitRunEnd(t, b)
                  e == SpaceRunEnd(t, d + 1) + 1
              IN  IF d >= b /\ MatchAt(t, e, S_dashes)
                  THEN e + Len(S_dashes) - 1 ELSE 0

RECURSIVE RemovePageMarkersFrom(_, _)
RemovePageMarkersFrom(t, i) ==
    LET M == {m \in i..Len(t) : PageMarkerEnd(t, m) > 0} IN
    IF M = {} THEN SubSeq(t, i, Len(t))
    ELSE LET m == CHOOSE m \in M : \A r \in M : m <= r
         IN  SubSeq(t, i, m - 1) \o RemovePageMarkersFrom(t, PageMarkerEnd(t, m) + 1)
\* re.sub(r'---\s*PAGE\s*\d+\s*---', '', text)
RemovePageMarkers(t) == RemovePageMarkersFrom(t, 1)

\* the replacements before the text is split into lines
Scrub(text) ==
    LET t1 == Replace(text, <<BACKSLASH>>, << >>)
        t2 == RemovePageMarkers(t1)
        t3 == Replace(t2, <<COPY>>, << >>)
        t4 == Replace(t3, <<NBSP>>, <<" ">>)
        t5 == Replace(t4, <<BACKSLASH>>, << >>)
    IN  Replace(t5, S_AKW, << >>)

\* a match of \s{3,} starts at i: the run of whitespace there is the match
GapAt(t, i) == SpaceRunEnd(t, i) - i + 1 >= 3

RECURSIVE ReSplit3From(_, _)
ReSplit3From(t, i) ==
    LET M == {m \in i..Len(t) : GapAt(t, m)} IN
    IF M = {} THEN <<SubSeq(t, i, Len(t))>>
    ELSE LET m == CHOOSE m \in M : \A r \in M : m <= r
         IN  <<SubSeq(t, i, m - 1)>> \o ReSplit3From(t, SpaceRunEnd(t, m) + 1)
\* re.split(r'\s{3,}', t)
ReSplit3(t) == ReSplit3From(t, 1)

\* re.match(r'^(Source|Figure|http).*', stripped, re.IGNORECASE)
IsCaptionLine(stripped) ==
    \/ MatchAt(Lower(stripped), 1, S_source)
    \/ MatchAt(Lower(stripped), 1, S_figure)
    \/ MatchAt(Lower(stripped), 1, S_http)

\* the junk filters below the footer latch: the line is dropped
IsNoiseLine(stripped) ==
    \/ Contains(stripped, S_FAO) /\ Contains(stripped, S_Yangon)
    \/ Contains(stripped, S_Page) /\ Contains(stripped, S_of)
    \/ Contains(stripped, S_Tuesday)
    \/ Contains(stripped, S_CD)
    \/ IsCaptionLine(stripped)

\* re.match(r'^\d+(\.\d+)*\.?', t): everything after ^\d+ is optional
NumPrefixMatch(t) == DigitRunEnd(t, 1) >= 1

\* the structure markers: what is appended to cleaned_lines for a kept line
MarkLine(stripped) ==
    IF Len(ReSplit3(stripped)) > 1 THEN Lit(S_TABLE_ROW) \o stripped
    ELSE IF NumPrefixMatch(stripped) THEN Lit(S_FORCE_BREAK) \o stripped
    ELSE stripped

\* CleanLines with a footer flag that is not kept from line to line
RECURSIVE M_CleanLines(_, _, _)
M_CleanLines(lines, i, hit_footer) ==
    IF i > Len(lines) THEN << >>
    ELSE LET stripped == Strip(lines[i]) IN
         IF Len(stripped) < MinLineLen THEN M_CleanLines(lines, i + 1, hit_footer)
         ELSE IF Contains(stripped, S_marker) THEN M_CleanLines(lines, i + 1, FALSE)
         ELSE IF IsNoiseLine(stripped) THEN M_CleanLines(lines, i + 1, FALSE)
         ELSE <<MarkLine(stripped)>> \o M_CleanLines(lines, i + 1, FALSE)

\* the loop over lines, hit_footer threaded through it
RECURSIVE CleanLines(_, _, _)
CleanLines(lines, i, hit_footer) ==
    IF i > Len(lines) THEN << >>
    ELSE LET stripped == Strip(lines[i]) IN
         IF Len(stripped) < MinLineLen THEN CleanLines(lines, i + 1, hit_footer)
         ELSE LET hit == hit_footer \/ Contains(stripped, S_marker) IN
              IF hit THEN CleanLines(lines, i + 1, hit)
              ELSE IF IsNoiseLine(stripped) THEN CleanLines(lines, i + 1, hit)
              ELSE <<MarkLine(stripped)>> \o CleanLines(lines, i + 1, hit)

RECURSIVE Join(_, _)
\* sep.join(parts)
Join(parts, sep) ==
    IF Len(parts) = 0 THEN << >>
    ELSE IF Len(parts) = 1 THEN parts[1]
    ELSE parts[1] \o Lit(sep) \o Join(Tail(parts), sep)

clean_text_rag_optimized(text) ==
    Join(CleanLines(Split(Scrub(text), NL), 1, FALSE), <<NL>>)

(***************************************************************************)
(* RAGSanitizer.sanitize: the text of one page cut into blocks             *)
(***************************************************************************)
\* the lookahead (?=\s*<FORCE_BREAK>|\s*[A-Z]) at position p
BreakAhead(t, p) ==
    \E q \in p..(SpaceRunEnd(t, p) + 1) :
        \/ MatchAt(t, q, S_FORCE_BREAK)
        \/ q <= Len(t) /\ IsUpper(t[q][1])

\* (<TABLE_ROW>.*?) matched at i: the first position after the match, or 0
TableRowEnd(t, i) ==
    IF ~MatchAt(t, i, S_TABLE_ROW) THEN 0
    ELSE LET from == i + Len(S_TABLE_ROW)
             ends == {p \in from..(Len(t) + 1) :
                         /\ \A k \in from..(p - 1) : t[k][1] # NL
                         /\ BreakAhead(t, p)}
         IN  IF ends = {} THEN 0
             ELSE CHOOSE p \in ends : \A r \in ends : p <= r

RECURSIVE GroupTableRowsFrom(_, _)
GroupTableRowsFrom(t, i) ==
    LET M == {m \in i..Len(t) : TableRowEnd(t, m) > 0} IN
    IF M = {} THEN SubSeq(t, i, Len(t))
    ELSE LET m == CHOOSE m \in M : \A r \in M : m <= r
             e == TableRowEnd(t, m)
         IN  SubSeq(t, i, m - 1) \o Lit(<<NL>> \o S_TABLE_BLOCK) \o SubSeq(t, m, e - 1)
                 \o GroupTableRowsFrom(t, e)
\* re.sub(r'(<TABLE_ROW>.*?)(?=\s*<FORCE_BREAK>|\s*[A-Z])', r'\n<TABLE_BLOCK>\1', t)
GroupTableRows(t) == GroupTableRowsFrom(t, 1)

\* the blocks of a page, from its cleaned text
PageBlocks(clean_text) ==
    LET c1 == Replace(clean_text, <<NL>>, <<" ">>)
        c2 == Replace(c1, S_FORCE_BREAK, <<NL>> \o S_FORCE_BREAK)
    IN  Split(GroupTableRows(c2), NL)

IsTableBlock(block) == Contains(block, S_TABLE_ROW) \/ Contains(block, S_TABLE_BLOCK)

\* row_content of a table block
RowContent(block) ==
    Replace(Replace(Replace(block, S_TABLE_BLOCK, << >>), S_TABLE_ROW, << >>),
            S_FORCE_BREAK, << >>)

\* text_content of a text block
TextContent(block) == Strip(Replace(block, S_FORCE_BREAK, << >>))

\* re.match(r'^\d+\.\s+[A-Z\s]+$', t): \s+ may give back all but one character
H1Match(t) ==
    LET d == DigitRunEnd(t, 1) IN
    /\ d >= 1
    /\ d + 1 <= Len(t) /\ t[d + 1][1] = "."
    /\ d + 2 <= Len(t) /\ IsSpace(t[d + 2][1])
    /\ d + 3 <= Len(t)
    /\ \A k \in (d + 3)..Len(t) : IsUpper(t[k][1]) \/ IsSpace(t[k][1])

\* re.match(r'^\d+\.\d+\.?\s+', t)
H2Match(t) ==
    LET d == DigitRunEnd(t, 1) IN
    /\ d >= 1
    /\ d + 1 <= Len(t) /\ t[d + 1][1] = "."
    /\ LET e == DigitRunEnd(t, d + 2)
           s == IF e + 1 <= Len(t) /\ t[e + 1][1] = "." THEN e + 2 ELSE e + 1
       IN  /\ e >= d + 2
           /\ \/ s <= Len(t) /\ IsSpace(t[s][1])
              \/ e + 1 <= Len(t) /\ IsSpace(t[e + 1][1])

\* StyleOf with the list rule tested first
M_StyleOf(text_content) ==
    IF NumPrefixMatch(text_content) THEN "ListItem"
    ELSE IF H1Match(text_content) /\ Len(text_content) < HeaderCap THEN "Header1"
    ELSE IF H2Match(text_content) /\ Len(text_content) < HeaderCap THEN "Header2"
    ELSE "Body"

\* the header logic: the ParagraphStyle chosen for text_content
StyleOf(text_content) ==
    IF H1Match(text_content) /\ Len(text_content) < HeaderCap THEN "Header1"
    ELSE IF H2Match(text_content) /\ Len(text_content) < HeaderCap THEN "Header2"
    ELSE IF NumPrefixMatch(text_content) THEN "ListItem"
    ELSE "Body"

(***************************************************************************)
(* The units of self.story.  src is the ghost origin of a unit: for each   *)
(* row (a Paragraph has one) the source lines its characters come from.    *)
(***************************************************************************)
\* positions of t where a new source line starts contributing characters
OriginStarts(t) ==
    {i \in 1..Len(t) :
        /\ t[i][2] # 0
        /\ LET before == {j \in 1..(i - 1) : t[j][2] # 0}
           IN  \/ before = {}
               \/ t[CHOOSE j \in before : \A k \in before : k <= j][2] # t[i][2]}

RECURSIVE OriginsFrom(_, _)
OriginsFrom(t, I) ==
    IF I = {} THEN << >>
    ELSE LET i == CHOOSE i \in I : \A k \in I : i <= k
         IN  <<t[i][2]>> \o OriginsFrom(t, I \ {i})
Origins(t) == OriginsFrom(t, OriginStarts(t))

Paragraph(text_content, style, page) ==
    [kind |-> "Paragraph", style |-> style, text |-> Plain(text_content),
     data |-> << >>, page |-> page, src |-> <<Origins(text_content)>>]

\* None
NoTable ==
    [kind |-> "None", style |-> "", text |-> << >>, data |-> << >>,
     page |-> 0, src |-> << >>]

\* process_table_block refusing a buffer of a single line
M_process_table_block(table_lines, page) ==
    LET data == [r \in 1..Len(table_lines) |-> ReSplit3(Strip(table_lines[r]))]
    IN  IF Len(data) < 2 THEN NoTable
        ELSE [kind |-> "Table", style |-> "", text |-> << >>,
              data |-> [r \in 1..Len(data) |->
                           [c \in 1..Len(data[r]) |-> Plain(data[r][c])]],
              page |-> page,
              src |-> [r \in 1..Len(table_lines) |-> Origins(table_lines[r])]]

(***************************************************************************)
(* RAGSanitizer.process_table_block: the Table built from the lines of the *)
(* buffer, each split into its columns, or None.                           *)
(***************************************************************************)
process_table_block(table_lines, page) ==
    LET data == [r \in 1..Len(table_lines) |-> ReSplit3(Strip(table_lines[r]))]
    IN  IF data = << >> THEN NoTable
        ELSE [kind |-> "Table", style |-> "", text |-> << >>,
              data |-> [r \in 1..Len(data) |->
                           [c \in 1..Len(data[r]) |-> Plain(data[r][c])]],
              page |-> page,
              src |-> [r \in 1..Len(table_lines) |-> Origins(table_lines[r])]]

Spacer(page) ==
    [kind |-> "Spacer", style |-> "", text |-> << >>, data |-> << >>,
     page |-> page, src |-> << >>]

(***************************************************************************)
(* Bounds and input domains.                                               *)
(***************************************************************************)
MaxPages == 2
MaxDocLines == 3
MaxFiles == 2
MaxBatchLines == 1

L_Row == <<"A", "b", " ", " ", " ", "C", "d">>
L_row == <<"a", " ", " ", " ", "b">>
L_Body == <<"B", "o", "d", "y">>
L_num == <<"1", ".", " ", "S", "C", "O", "P", "E">>
L_junk == <<"l", "i", "s", "t", " ", "o", "f", " ", "f", "i", "g", "u", "r", "e", "s">>
\* a line of the feedback footer
L_marker == S_marker

Lines == {L_Row, L_Body, L_num, L_marker, L_junk}
BatchLines == {L_Body, L_Row, L_junk}

L_scope == <<"1", ".", " ", " ", "S", "C", "O", "P", "E">>
L_defs == <<"1", ".", "1", " ", "D", "e", "f", "i", "n", "i", "t", "i", "o", "n", "s", " ", "a", "p", "p", "l", "y">>
L_cond == <<"(", "a", ")", " ", "f", "i", "r", "s", "t", " ", "c", "o", "n", "d", "i", "t", "i", "o", "n">>
L_proc == <<"T", "h", "i", "s", " ", "s", "e", "c", "t", "i", "o", "n", " ", "d", "e", "s", "c", "r", "i", "b", "e", "s", " ", "t", "h", "e", " ", "p", "r", "o", "c", "e", "d", "u", "r", "e", ".">>
L_numrow == <<"1", " ", " ", " ", "2">>
L_year == <<"2", "0", "2", "4", " ", "w", "a", "s">>
L_sub == <<"2", ".", "3", ".", " ", "A", "b">>
L_item == <<"1", "2", ".", " ", "A", "b", " ", "c", "d">>
L_fao == <<"F", "A", "O", " ", "Y", "a", "n", "g", "o", "n">>
L_pageof == <<"P", "a", "g", "e", " ", "2", " ", "o", "f", " ", "9">>
L_date == <<"T", "u", "e", "s", "d", "a", "y", ",", " ", "D", "e", "c", "e", "m", "b", "e", "r", " ", "5">>
L_code == <<"C", "D", "1", "0", "9", "8", "E", "N">>
L_source == <<"S", "o", "u", "r", "c", "e", ":", " ", "x">>
L_fig == <<"f", "i", "g", "u", "r", "e", " ", "2">>
L_url == <<"H", "T", "T", "P", " ", "x">>
L_pagemark == <<"-", "-", "-", " ", "P", "A", "G", "E", " ", "3", " ", "-", "-", "-", "A", "b">>
L_scrub == <<"A", "K", "W", "x", COPY, "y", BACKSLASH, "z">>
L_short == <<"a", "b">>
L_nbsp == <<"a", NBSP, NBSP, NBSP, "b">>
L_license == <<"c", "r", "e", "a", "t", "i", "v", "e", " ", "c", "o", "m", "m", "o", "n", "s", " ", "i", "s", "b", "n", " ", "9", "7", "8">>
L_rights == <<"A", "l", "l", " ", "R", "i", "g", "h", "t", "s", " ", "R", "e", "s", "e", "r", "v", "e", "d">>
L_leaders == <<".", ".", ".", ".", ".", " ", ".", ".", ".", ".", ".", " ", ".", ".", ".", ".", ".", " ", ".", ".", ".", ".", ".">>
L_toc == <<"C", "o", "n", "t", "e", "n", "t", "s", " ", "c", "h", "a", "p", "t", "e", "r">>
L_h1max == <<"1", ".", " ">> \o [i \in 1..(HeaderCap - 4) |-> "A"]
L_h1over == <<"1", ".", " ">> \o [i \in 1..(HeaderCap - 3) |-> "A"]
L_latetoc == [i \in 1..ContentsWindow |-> "x"] \o <<" ">> \o L_toc

ClassifyLines ==
    Lines \cup
    {L_scope, L_defs, L_cond, L_proc, L_numrow, L_year,
     L_sub, L_item, L_fao, L_pageof, L_date, L_code,
     L_source, L_fig, L_url, L_pagemark, L_scrub, L_short,
     L_nbsp, L_license, L_rights, L_leaders, L_toc, L_h1max,
     L_h1over, L_latetoc, L_row}

SeqsUpTo(S, n) == UNION {[1..k -> S] : k \in 0..n}

\* every page a document of one of the specifications below can hold
AllPages ==
    SeqsUpTo(Lines, MaxDocLines) \cup SeqsUpTo(BatchLines, MaxBatchLines)
        \cup SeqsUpTo(ClassifyLines, 1)

\* page.get_text("text"): every line of the page ends with a newline
RawText(lines) ==
    IF Len(lines) = 0 THEN << >>
    ELSE Join([i \in 1..Len(lines) |-> Tagged(lines[i], i)], <<NL>>) \o Lit(<<NL>>)

(***************************************************************************)
(* State.                                                                  *)
(***************************************************************************)
VARIABLES
    files,          \* run_batch: the number of files glob found (files 1..files)
    catalog,        \* the lines the document source can yield
    limit,          \* the number of lines one document can yield
    budget,         \* the lines the open document can still yield
    pc,             \* "loop", "page", "block", "exit"
    fidx,           \* run_batch: index of f in files (0 before the first)
    attempted,      \* ghost: the files the loop body has been entered for
    log,            \* what run_batch printed per file: "Done" or "Error"
    s,              \* run_batch: the file whose RAGSanitizer s refers to (0: unbound)
    open_docs,      \* files whose fitz document handle is open
    built,          \* output files written: file, flowables doc.build got by kind
    n_pages,        \* len(self.doc)
    page_num,       \* sanitize: the loop variable
    raw_lines,      \* ghost: the lines of the page being processed
    blocks,         \* sanitize: the blocks of the page still to process
    table_buffer,   \* sanitize: table_buffer
    story,          \* self.story
    dropped,        \* ghost: text units whose Paragraph raised
    seen            \* ghost: per page read, its lines, junk verdict, kept lines, blocks

vars == <<files, catalog, limit, budget, pc, fidx, attempted, log, s, open_docs,
          built, n_pages, page_num, raw_lines, blocks, table_buffer, story,
          dropped, seen>>

input == <<files, catalog, limit>>
batch == <<fidx, attempted, log, s, open_docs, built>>
page_state == <<raw_lines, blocks, table_buffer>>

Start ==
    /\ budget = 0
    /\ pc = "loop"
    /\ fidx = 0
    /\ attempted = << >>
    /\ log = << >>
    /\ s = 0
    /\ open_docs = {}
    /\ built = << >>
    /\ n_pages = 0
    /\ page_num = 0
    /\ raw_lines = << >>
    /\ blocks = << >>
    /\ table_buffer = << >>
    /\ story = << >>
    /\ dropped = << >>
    /\ seen = << >>

\* one document, sanitized page by page
Init ==
    /\ files = 1
    /\ catalog = Lines
    /\ limit = MaxDocLines
    /\ Start

\* one document of one line, from the larger catalog
InitClassify ==
    /\ files = 1
    /\ catalog = ClassifyLines
    /\ limit = 1
    /\ Start

\* a batch of documents
InitBatch ==
    /\ files \in 0..MaxFiles
    /\ catalog = BatchLines
    /\ limit = MaxBatchLines
    /\ Start

(***************************************************************************)
(* run_batch and RAGSanitizer.__init__                                     *)
(***************************************************************************)
\* s = RAGSanitizer(f, out_name), fitz.open succeeding on a document of n
\* pages.  The sanitizer s referred to before becomes unreachable; whether
\* its document is closed then is left to the garbage collector (release).
OpenOk(n, release) ==
    /\ pc = "loop" /\ fidx < files
    /\ fidx' = fidx + 1
    /\ attempted' = Append(attempted, fidx + 1)
    /\ s' = fidx + 1
    /\ open_docs' = IF release THEN (open_docs \ {s}) \cup {fidx + 1}
                    ELSE open_docs \cup {fidx + 1}
    /\ n_pages' = n
    /\ story' = << >>
    /\ page_num' = 0
    /\ budget' = limit
    /\ seen' = << >>
    /\ dropped' = << >>
    /\ pc' = "page"
    /\ UNCHANGED <<input, log, built, page_state>>

\* Caught with the exception leaving run_batch
M_Caught ==
    /\ log' = Append(log, "Error")
    /\ pc' = "exit"

\* an exception leaves sanitize() or __init__: the except clause of run_batch
Caught ==
    /\ log' = Append(log, "Error")
    /\ pc' = "loop"

\* fitz.open raises in __init__: s is not rebound
OpenFail ==
    /\ pc = "loop" /\ fidx < files
    /\ fidx' = fidx + 1
    /\ attempted' = Append(attempted, fidx + 1)
    /\ Caught
    /\ UNCHANGED <<input, budget, s, open_docs, built, n_pages, page_num,
                   page_state, story, dropped, seen>>

\* the for loop over files is exhausted
BatchEnd ==
    /\ pc = "loop" /\ fidx = files
    /\ pc' = "exit"
    /\ UNCHANGED <<input, budget, batch, n_pages, page_num, page_state, story,
                   dropped, seen>>

(***************************************************************************)
(* RAGSanitizer.sanitize                                                   *)
(***************************************************************************)
\* what doc.build(self.story) writes for file f: the flowables it got, by kind
Rendered(f, st) ==
    [file |-> f,
     paragraphs |-> Len(SelectSeq(st, LAMBDA u : u.kind = "Paragraph")),
     tables |-> Len(SelectSeq(st, LAMBDA u : u.kind = "Table")),
     spacers |-> Len(SelectSeq(st, LAMBDA u : u.kind = "Spacer"))]

\* the locals of sanitize() are gone when it returns or raises
Left ==
    /\ raw_lines' = << >>
    /\ blocks' = << >>
    /\ table_buffer' = << >>

\* load_page or get_text raises
LoadPageFail ==
    /\ pc = "page" /\ page_num < n_pages
    /\ Caught
    /\ Left
    /\ UNCHANGED <<input, budget, fidx, attempted, s, open_docs, built, n_pages,
                   page_num, story, dropped, seen>>

\* ghost: what a page that is not junk was cut into: the lines that survived
\* the noise filter and, per block that is not empty, its kind and its lines
PageRecord(lines, clean_text, page_blocks) ==
    LET bl == SelectSeq(page_blocks, LAMBDA b : Strip(b) # << >>)
    IN  [lines |-> lines, junk |-> FALSE, kept |-> Origins(clean_text),
         blocks |-> [i \in 1..Len(bl) |->
                        [table |-> IsTableBlock(Strip(bl[i])),
                         src |-> Origins(bl[i])]]]

\* the head of the page loop for a page of the given lines: the verdict of
\* is_junk_page on its text and, when it is kept, the blocks it is cut into
ReadPage(lines) ==
    IF is_junk_page(RawText(lines))
    THEN [junk |-> TRUE, blocks |-> << >>,
          rec |-> [lines |-> lines, junk |-> TRUE, kept |-> << >>,
                   blocks |-> << >>]]
    ELSE LET clean_text == clean_text_rag_optimized(RawText(lines))
             page_blocks == PageBlocks(clean_text)
         IN  [junk |-> FALSE, blocks |-> page_blocks,
              rec |-> PageRecord(lines, clean_text, page_blocks)]

\* ReadPage tabulated once over the pages the document source can yield
PageTable == [lines \in AllPages |-> ReadPage(lines)] @@ << >>

\* the page is read and judged junk: continue
SkipJunkPage(lines) ==
    /\ pc = "page" /\ page_num < n_pages
    /\ PageTable[lines].junk
    /\ budget' = budget - Len(lines)
    /\ page_num' = page_num + 1
    /\ seen' = Append(seen, PageTable[lines].rec)
    /\ UNCHANGED <<input, pc, batch, n_pages, page_state, story, dropped>>

\* LoadPage without the reset of table_buffer
M_LoadPage(lines) ==
    /\ pc = "page" /\ page_num < n_pages
    /\ ~PageTable[lines].junk
    /\ budget' = budget - Len(lines)
    /\ raw_lines' = lines
    /\ blocks' = PageTable[lines].blocks
    /\ seen' = Append(seen, PageTable[lines].rec)
    /\ pc' = "block"
    /\ UNCHANGED <<input, batch, n_pages, page_num, table_buffer, story, dropped>>

\* the page is read, cleaned and cut into blocks
LoadPage(lines) ==
    /\ pc = "page" /\ page_num < n_pages
    /\ ~PageTable[lines].junk
    /\ budget' = budget - Len(lines)
    /\ raw_lines' = lines
    /\ blocks' = PageTable[lines].blocks
    /\ seen' = Append(seen, PageTable[lines].rec)
    /\ table_buffer' = << >>
    /\ pc' = "block"
    /\ UNCHANGED <<input, batch, n_pages, page_num, story, dropped>>

\* a block that is empty after strip()
SkipBlock ==
    /\ pc = "block" /\ blocks # << >>
    /\ Strip(Head(blocks)) = << >>
    /\ blocks' = Tail(blocks)
    /\ UNCHANGED <<input, budget, pc, batch, n_pages, page_num, raw_lines,
                   table_buffer, story, dropped, seen>>

\* table handling
TableBlock ==
    /\ pc = "block" /\ blocks # << >>
    /\ Strip(Head(blocks)) # << >>
    /\ IsTableBlock(Strip(Head(blocks)))
    /\ table_buffer' = Append(table_buffer, RowContent(Strip(Head(blocks))))
    /\ blocks' = Tail(blocks)
    /\ UNCHANGED <<input, budget, pc, batch, n_pages, page_num, raw_lines, story,
                   dropped, seen>>

\* the story after the flush of a table buffer before a text block
Flushed(st, buffer, page) ==
    IF buffer # << >>
    THEN LET t == process_table_block(buffer, page)
         IN  (IF t # NoTable THEN Append(st, t) ELSE st) \o <<Spacer(page)>>
    ELSE st

\* TextBlock with a plain Body paragraph appended when Paragraph raises
M_TextBlock(raises) ==
    /\ pc = "block" /\ blocks # << >>
    /\ Strip(Head(blocks)) # << >>
    /\ ~IsTableBlock(Strip(Head(blocks)))
    /\ LET text_content == TextContent(Strip(Head(blocks)))
           p == Paragraph(text_content, StyleOf(text_content), page_num)
           flushed == Flushed(story, table_buffer, page_num)
       IN  /\ story' = IF text_content = << >> THEN flushed
                       ELSE IF raises
                       THEN Append(flushed, Paragraph(text_content, "Body", page_num))
                       ELSE Append(flushed, p)
           /\ dropped' = IF text_content # << >> /\ raises THEN Append(dropped, p)
                         ELSE dropped
    /\ table_buffer' = << >>
    /\ blocks' = Tail(blocks)
    /\ UNCHANGED <<input, budget, pc, batch, n_pages, page_num, raw_lines, seen>>

\* text handling; raises: whether Paragraph(text_content, style) raises
TextBlock(raises) ==
    /\ pc = "block" /\ blocks # << >>
    /\ Strip(Head(blocks)) # << >>
    /\ ~IsTableBlock(Strip(Head(blocks)))
    /\ LET text_content == TextContent(Strip(Head(blocks)))
           p == Paragraph(text_content, StyleOf(text_content), page_num)
           flushed == Flushed(story, table_buffer, page_num)
       IN  /\ story' = IF text_content = << >> \/ raises THEN flushed
                       ELSE Append(flushed, p)
           /\ dropped' = IF text_content # << >> /\ raises THEN Append(dropped, p)
                         ELSE dropped
    /\ table_buffer' = << >>
    /\ blocks' = Tail(blocks)
    /\ UNCHANGED <<input, budget, pc, batch, n_pages, page_num, raw_lines, seen>>

\* FlushedAtEnd with the table put in front of the story
M_FlushedAtEnd(st, buffer, page) ==
    IF buffer # << >>
    THEN LET t == process_table_block(buffer, page)
         IN  IF t # NoTable THEN <<t>> \o st ELSE st
    ELSE st

\* the story after the flush at the end of a page
FlushedAtEnd(st, buffer, page) ==
    IF buffer # << >>
    THEN LET t == process_table_block(buffer, page)
         IN  IF t # NoTable THEN Append(st, t) ELSE st
    ELSE st

\* the blocks of the page are exhausted: flush, then the next page
EndPage ==
    /\ pc = "block" /\ blocks = << >>
    /\ story' = FlushedAtEnd(story, table_buffer, page_num)
    /\ page_num' = page_num + 1
    /\ pc' = "page"
    /\ UNCHANGED <<input, budget, batch, n_pages, page_state, dropped, seen>>

\* all pages done and the story is not empty: doc.build(self.story) returns
Build ==
    /\ pc = "page" /\ page_num = n_pages
    /\ story # << >>
    /\ built' = Append(built, Rendered(fidx, story))
    /\ log' = Append(log, "Done")
    /\ pc' = "loop"
    /\ Left
    /\ UNCHANGED <<input, budget, fidx, attempted, s, open_docs, n_pages,
                   page_num, story, dropped, seen>>

\* doc.build raises
BuildFail ==
    /\ pc = "page" /\ page_num = n_pages
    /\ story # << >>
    /\ Caught
    /\ Left
    /\ UNCHANGED <<input, budget, fidx, attempted, s, open_docs, built, n_pages,
                   page_num, story, dropped, seen>>

\* NoBuild without the test of self.story: the empty story is built
M_NoBuild ==
    /\ pc = "page" /\ page_num = n_pages
    /\ story = << >>
    /\ built' = Append(built, Rendered(fidx, story))
    /\ log' = Append(log, "Done")
    /\ pc' = "loop"
    /\ Left
    /\ UNCHANGED <<input, budget, fidx, attempted, s, open_docs, n_pages,
                   page_num, story, dropped, seen>>

\* all pages done and the story is empty: sanitize returns without building
NoBuild ==
    /\ pc = "page" /\ page_num = n_pages
    /\ story = << >>
    /\ log' = Append(log, "Done")
    /\ pc' = "loop"
    /\ Left
    /\ UNCHANGED <<input, budget, fidx, attempted, s, open_docs, built, n_pages,
                   page_num, story, dropped, seen>>

Next ==
    \/ \E n \in 0..MaxPages, release \in BOOLEAN : OpenOk(n, release)
    \/ OpenFail
    \/ BatchEnd
    \/ LoadPageFail
    \/ \E lines \in SeqsUpTo(catalog, budget) : SkipJunkPage(lines)
    \/ \E lines \in SeqsUpTo(catalog, budget) : LoadPage(lines)
    \/ SkipBlock
    \/ TableBlock
    \/ \E raises \in BOOLEAN : TextBlock(raises)
    \/ EndPage
    \/ Build
    \/ BuildFail
    \/ NoBuild

Spec == Init /\ [][Next]_vars
SpecBatch == InitBatch /\ [][Next]_vars
SpecClassify == InitClassify /\ [][Next]_vars


(***************************************************************************)
(* Properties.                                                             *)
(***************************************************************************)
RECURSIVE Flat(_)
\* the concatenation of a sequence of sequences
Flat(ss) == IF ss = << >> THEN << >> ELSE Head(ss) \o Flat(Tail(ss))

\* the units of the story st that come from page p
TablesOf(st, p) == SelectSeq(st, LAMBDA u : u.kind = "Table" /\ u.page = p)
UnitsOf(st, p) == SelectSeq(st, LAMBDA u : u.kind # "Spacer" /\ u.page = p)

\* per line of the catalogs: whether it holds the phrase that starts the
\* feedback footer, and whether it survives the noise filter on a page of
\* its own
LineTable ==
    [line \in ClassifyLines |->
        [marker |-> Contains(Tagged(line, 1), S_marker),
         kept |-> Origins(clean_text_rag_optimized(RawText(<<line>>))) # << >>]]
        @@ << >>
HasMarker(line) == LineTable[line].marker
KeptAlone(line) == LineTable[line].kept

\* sanitize() is not inside the block loop: every page in seen is finished
PagesFinished == pc # "block"

---------------------------------------------------------------------------
\* C1 as claimed: the first page of a document is judged junk whatever its
\* text, and no unit of the story comes from page 0.
C1_FirstPageAlwaysDropped ==
    /\ Len(seen) >= 1 => seen[1].junk
    /\ \A i \in 1..Len(story) : story[i].page # 0

\* C1 amended: a page, the first included, is judged junk exactly when its
\* text meets a criterion of is_junk_page (of the lines of this catalog, only
\* "list of figures" does), and no unit of the story comes from a junk page.
C1_JunkPagesDropped ==
    \A k \in 1..Len(seen) :
        /\ seen[k].junk <=>
               \E i \in 1..Len(seen[k].lines) : seen[k].lines[i] = L_junk
        /\ seen[k].junk => \A i \in 1..Len(story) : story[i].page # k - 1

\* a junk first page followed by a page that contributed to the story
C1_Witness ==
    /\ Len(seen) = 2
    /\ seen[1].junk /\ seen[1].lines # << >>
    /\ \E i \in 1..Len(story) : story[i].page = 1

---------------------------------------------------------------------------
RECURSIVE RunLengthsFrom(_, _, _)
RunLengthsFrom(bl, i, cur) ==
    IF i > Len(bl) THEN (IF cur > 0 THEN <<cur>> ELSE << >>)
    ELSE IF bl[i].table THEN RunLengthsFrom(bl, i + 1, cur + 1)
    ELSE (IF cur > 0 THEN <<cur>> ELSE << >>) \o RunLengthsFrom(bl, i + 1, 0)
\* the lengths of the maximal runs of contiguous table blocks of a page
RunLengths(bl) == RunLengthsFrom(bl, 1, 0)

\* C2 as claimed: every table of the story has at least 2 rows (a run of a
\* single table-row block is not emitted as a table).
C2_TablesHaveTwoRows ==
    \A i \in 1..Len(story) : story[i].kind = "Table" => Len(story[i].data) >= 2

\* C2 amended: every maximal run of contiguous table-row blocks of a page,
\* a run of length 1 included, is emitted as one table with one row per
\* block; every table of the story has at least 1 row.
C2_TablePerRun ==
    /\ \A i \in 1..Len(story) :
           story[i].kind = "Table" => Len(story[i].data) >= 1
    /\ PagesFinished =>
           \A k \in 1..Len(seen) :
               ~seen[k].junk =>
                   LET ts == TablesOf(story, k - 1)
                   IN  [i \in 1..Len(ts) |-> Len(ts[i].data)]
                           = RunLengths(seen[k].blocks)

\* a table of one row and a table of two rows in the same story
C2_Witness ==
    /\ PagesFinished
    /\ \E i, j \in 1..Len(story) :
           /\ story[i].kind = "Table" /\ Len(story[i].data) = 1
           /\ story[j].kind = "Table" /\ Len(story[j].data) = 2

---------------------------------------------------------------------------
\* C3: on every page, a line is in the output of the noise filter exactly
\* when it survives the filter on its own and neither it nor an earlier
\* line of the same page holds the footer phrase; lines of other pages do
\* not matter (the latch starts cleared on every page).
C3_FooterLatchPerPage ==
    \A k \in 1..Len(seen) :
        ~seen[k].junk =>
            \A i \in 1..Len(seen[k].lines) :
                (\E j \in 1..Len(seen[k].kept) : seen[k].kept[j] = i)
                    <=> /\ KeptAlone(seen[k].lines[i])
                        /\ \A j \in 1..i : ~HasMarker(seen[k].lines[j])

\* page 0 holds the footer phrase and then a line that is suppressed; the
\* next page has a line that is kept
C3_Witness ==
    /\ Len(seen) = 2
    /\ Len(seen[1].lines) = 2
    /\ HasMarker(seen[1].lines[1])
    /\ KeptAlone(seen[1].lines[2])
    /\ seen[1].kept = << >>
    /\ ~seen[2].junk /\ seen[2].kept # << >>

---------------------------------------------------------------------------
\* the source lines of the story as <<page, line>>, in the order of the story
PageLineSeq(st) ==
    Flat([i \in 1..Len(st) |->
             LET f == Flat(st[i].src)
             IN  [j \in 1..Len(f) |-> <<st[i].page, f[j]>>]])

\* <<page, line>> a comes before b in the document
Earlier(a, b) == a[1] < b[1] \/ (a[1] = b[1] /\ a[2] < b[2])

\* C4: the source lines of the units of the story, read in story order (and
\* inside a table row by row), are strictly increasing in (page, line):
\* nothing is emitted before something that precedes it in the document,
\* and no line is emitted twice.
C4_OrderPreserved ==
    LET f == PageLineSeq(story)
    IN  \A i \in 1..(Len(f) - 1) : Earlier(f[i], f[i + 1])

\* a story with a paragraph and a table from page 0 and a unit from page 1
C4_Witness ==
    /\ \E i, j \in 1..Len(story) :
           /\ story[i].kind = "Paragraph" /\ story[i].page = 0
           /\ story[j].kind = "Table" /\ story[j].page = 0
    /\ \E i \in 1..Len(story) : story[i].page = 1 /\ story[i].kind # "Spacer"

---------------------------------------------------------------------------
\* C5 as claimed: a text unit whose Paragraph raised is still in the story,
\* as a Body paragraph with its text.
C5_FallbackToBody ==
    \A d \in 1..Len(dropped) :
        \E i \in 1..Len(story) :
            /\ story[i].kind = "Paragraph" /\ story[i].style = "Body"
            /\ story[i].text = dropped[d].text
            /\ story[i].page = dropped[d].page
            /\ story[i].src = dropped[d].src

\* C5 amended: a text unit whose Paragraph raised is left out of the story:
\* the step that meets the failure appends no paragraph, keeps the units
\* already in the story, records no error and goes on with the next block of
\* the page; the unit is in the story at no later time either.
C5_FailedUnitOmitted ==
    /\ [](\A d \in 1..Len(dropped) :
              \A i \in 1..Len(story) :
                  ~(story[i].page = dropped[d].page /\ story[i].src = dropped[d].src))
    /\ [][Len(dropped') > Len(dropped) =>
              /\ pc' = "block"
              /\ log' = log
              /\ blocks' = Tail(blocks)
              /\ Len(story') >= Len(story)
              /\ SubSeq(story', 1, Len(story)) = story
              /\ \A i \in (Len(story) + 1)..Len(story') :
                     story'[i].kind # "Paragraph"]_vars

\* a Paragraph raised, a later unit of the same page is in the story and
\* sanitize() returned normally
C5_Witness ==
    /\ pc = "loop" /\ log = <<"Done">>
    /\ Len(dropped) = 1
    /\ \E i \in 1..Len(story) :
           /\ story[i].kind = "Paragraph"
           /\ story[i].page = dropped[1].page
           /\ Earlier(<<0, dropped[1].src[1][1]>>, <<0, story[i].src[1][1]>>)

---------------------------------------------------------------------------
\* C6: run_batch enters the loop body for the files in list order, each
\* once, whatever failed before: one outcome is printed per file, the loop
\* ends only after the last file, and a sanitizer starts from an empty story
\* on page 0 whether or not an earlier document failed.
C6_BatchIsolation ==
    /\ attempted = [i \in 1..fidx |-> i]
    /\ fidx <= files
    /\ pc = "exit" => fidx = files /\ Len(log) = files
    /\ pc = "loop" => Len(log) = fidx
    /\ pc \in {"page", "block"} => Len(log) = fidx - 1 /\ s = fidx
    /\ (pc = "page" /\ page_num = 0) =>
           story = << >> /\ seen = << >> /\ dropped = << >>

\* the first document failed, the second was processed and built
C6_Witness ==
    /\ pc = "exit"
    /\ files = 2
    /\ log = <<"Error", "Done">>
    /\ Len(built) = 1 /\ built[1].file = 2

---------------------------------------------------------------------------
\* C7 as claimed: when run_batch moves on from a document (to the next file
\* or out of the loop), the handle opened for it has been closed.
C7_HandleReleased ==
    (pc \in {"loop", "exit"} /\ fidx >= 1) => fidx \notin open_docs

---------------------------------------------------------------------------
\* every page of the document was read and none has a line that survived
NothingSurvived ==
    /\ Len(seen) = n_pages
    /\ \A k \in 1..Len(seen) : seen[k].junk \/ seen[k].kept = << >>

\* C8: when every page of a document is junk or loses all its lines to the
\* noise filter, sanitize() returns normally with an empty story and nothing
\* is built; whatever is built holds at least one paragraph or table.
C8_EmptyDocument ==
    /\ (pc = "loop" /\ fidx >= 1 /\ s = fidx /\ page_num = n_pages /\ NothingSurvived) =>
           /\ story = << >>
           /\ log[fidx] = "Done"
           /\ \A b \in 1..Len(built) : built[b].file # fidx
    /\ \A b \in 1..Len(built) : built[b].paragraphs + built[b].tables >= 1

\* a junk page and a page whose only line is suppressed: nothing built
C8_Witness ==
    /\ pc = "loop" /\ fidx = 1 /\ n_pages = 2
    /\ Len(seen) = 2
    /\ seen[1].junk
    /\ ~seen[2].junk /\ seen[2].lines # << >> /\ seen[2].kept = << >>
    /\ story = << >> /\ built = << >> /\ log = <<"Done">>

---------------------------------------------------------------------------
\* what a page holding only the given line must yield: "junk", "none" (the
\* line is filtered out), "Table" or the style of its paragraph; letter is
\* the role given to the lettered line "(a) first condition"
ExpectedRole(line, letter) ==
    CASE line = L_scope -> "Header1"
      [] line = L_defs -> "Header2"
      [] line = L_cond -> letter
      [] line = L_proc -> "Body"
      [] line = L_numrow -> "Table"
      [] line = L_year -> "ListItem"
      [] line = L_sub -> "Header2"
      [] line = L_item -> "ListItem"
      [] line = L_h1max -> "Header1"
      [] line = L_h1over -> "ListItem"
      [] line = L_num -> "Header1"
      [] line = L_Row -> "Table"
      [] line = L_row -> "Table"
      [] line = L_nbsp -> "Table"
      [] line = L_Body -> "Body"
      [] line = L_scrub -> "Body"
      [] line = L_rights -> "Body"
      [] line = L_latetoc -> "Body"
      [] line \in {L_junk, L_license, L_leaders, L_toc} -> "junk"
      [] OTHER -> "none"

\* what page k of seen yielded
RoleOfPage(k) ==
    IF seen[k].junk THEN "junk"
    ELSE LET us == UnitsOf(story, k - 1)
         IN  IF us = << >> THEN "none"
             ELSE IF Len(us) > 1 THEN "many"
             ELSE IF us[1].kind = "Table" THEN "Table"
             ELSE us[1].style

RolesAre(letter) ==
    (PagesFinished /\ dropped = << >>) =>
        \A k \in 1..Len(seen) :
            Len(seen[k].lines) = 1 =>
                RoleOfPage(k) = ExpectedRole(seen[k].lines[1], letter)

---------------------------------------------------------------------------
\* the rows of the tables of page p in story st, as the lines they come from
TableRowsOf(st, p) ==
    LET ts == TablesOf(st, p) IN Flat([i \in 1..Len(ts) |-> ts[i].src])
\* the table blocks of a page, as the lines they come from
TableBlocksOf(rec) ==
    LET tb == SelectSeq(rec.blocks, LAMBDA b : b.table)
    IN  [i \in 1..Len(tb) |-> tb[i].src]
IsPrefixOf(a, b) == Len(a) <= Len(b) /\ SubSeq(b, 1, Len(a)) = a

\* every row put in the buffer is in exactly one table of its page, in the
\* order of the buffer; while a page is processed the rows not yet emitted
\* are in the buffer; a table precedes the text units that follow its rows
RowsEmittedOnce ==
    /\ PagesFinished =>
           \A k \in 1..Len(seen) :
               ~seen[k].junk => TableRowsOf(story, k - 1) = TableBlocksOf(seen[k])
    /\ pc = "block" =>
           /\ IsPrefixOf(TableRowsOf(story, page_num)
                             \o [r \in 1..Len(table_buffer) |-> Origins(table_buffer[r])],
                         TableBlocksOf(seen[Len(seen)]))
           /\ \A k \in 1..(Len(seen) - 1) :
                  ~seen[k].junk => TableRowsOf(story, k - 1) = TableBlocksOf(seen[k])
    /\ \A i, j \in 1..Len(story) :
           (i < j /\ story[i].kind = "Table" /\ story[j].kind = "Paragraph") =>
               \A r \in 1..Len(story[i].src) :
                   Earlier(<<story[i].page, story[i].src[r][1]>>,
                           <<story[j].page, story[j].src[1][1]>>)

\* C10 as claimed: table_buffer is empty whenever sanitize() is between two
\* pages (a page has ended, the next has not started its blocks), and every
\* buffered row is emitted exactly once, in its page, in order.
C10_BufferEmptyBetweenPages ==
    /\ pc = "page" => table_buffer = << >>
    /\ RowsEmittedOnce

\* C10 amended: table_buffer is empty when the first block of a page is
\* processed (it is reset at the head of the block loop, not by the flush
\* at the end of a page, after which it still holds the rows just emitted),
\* and every buffered row is emitted exactly once, in its page, in order.
C10_BufferResetPerPage ==
    /\ (pc = "block" /\ blocks = PageTable[raw_lines].blocks) => table_buffer = << >>
    /\ RowsEmittedOnce

\* page 0 ended with the flush of a table and the buffer of page 1 holds a row
C10_Witness ==
    /\ pc = "block" /\ page_num = 1
    /\ Len(table_buffer) = 1
    /\ Len(story) >= 1
    /\ story[Len(story)].kind = "Table" /\ story[Len(story)].page = 0

=============================================================================
